---- MODULE Spec2Model ----
(***************************************************************************)
(* Model of the dispatcher Worker (src/worker.go): worker creation and     *)
(* the registry, Start/init, the consumption loop, the per-delivery        *)
(* execution units with the timeout guard, and graceful Close.             *)
(***************************************************************************)
EXTENDS Integers, Sequences, FiniteSets, TLC

\* ------------------------------------------------------------------ bounds
MaxStarts == 2      \* calls of init that the client makes
MaxDeliveries == 3  \* deliveries the broker hands out
MaxLimit == 2       \* largest WorkerConfig.Limit the client configures

DefaultLimit == 3   \* worker.go:76

Gens == 1..MaxStarts
Ids == 1..MaxDeliveries
Closers == {1, 2}

\* ------------------------------------------------- wire format and tasks
\* TaskArgument{Type, Value}
Arg(t, v) == [Type |-> t, Value |-> v]

NoTask == [Name |-> "", UUID |-> "", Args |-> <<>>]

\* Message bodies the publisher may have put on the queue.  raw is the
\* shape of the byte string: "" (no bytes), "{" (not JSON), "json".
Bodies ==
  << [raw |-> "",     task |-> NoTask],
     [raw |-> "{",    task |-> NoTask],
     [raw |-> "json", task |-> [Name |-> "", UUID |-> "x", Args |-> <<>>]],
     [raw |-> "json", task |-> [Name |-> "other", UUID |-> "u1",
                                Args |-> <<Arg("int", 1)>>]],
     [raw |-> "json", task |-> [Name |-> "fast", UUID |-> "u2",
                                Args |-> <<Arg("int", 1), Arg("string", 2)>>]],
     [raw |-> "json", task |-> [Name |-> "fast", UUID |-> "u3",
                                Args |-> <<Arg("int", 1), Arg("bad", 2)>>]],
     [raw |-> "json", task |-> [Name |-> "slow", UUID |-> "u4",
                                Args |-> <<Arg("int", 1), Arg("string", 2)>>]] >>

BodyIds == 1..Len(Bodies)

\* the zero amqp.Delivery a closed deliveries channel yields
ZeroBody == [raw |-> "", task |-> NoTask]

\* len(d.Body), worker.go:198
BodyLen(b) == IF b.raw = "" THEN 0 ELSE IF b.raw = "{" THEN 1 ELSE 2

\* json.Unmarshal(d.Body, &task), worker.go:211
Unmarshal(b) ==
  IF b.raw = "json" THEN [err |-> FALSE, task |-> b.task]
                    ELSE [err |-> TRUE,  task |-> NoTask]

\* the dispatch table handed to NewWorker (w.tasks)
Tasks ==
  [n \in {"fast", "slow"} |->
     IF n = "fast" THEN [TimeoutSeconds |-> 0, TaskUUIDAsFirstArg |-> FALSE]
                   ELSE [TimeoutSeconds |-> 1, TaskUUIDAsFirstArg |-> TRUE]]

\* utils.ReflectValue: the value decoder, (typeTag, rawValue) -> value | error
KnownTypes == {"string", "int"}
ReflectValue(t, v) ==
  IF t \in KnownTypes THEN [err |-> FALSE, val |-> <<t, v>>]
                      ELSE [err |-> TRUE,  val |-> <<"", 0>>]

\* reflectArgs, worker.go:306
reflectArgs(args) ==
  IF \E i \in 1..Len(args) : ReflectValue(args[i].Type, args[i].Value).err
    THEN [err |-> TRUE, vals |-> <<>>]
    ELSE [err |-> FALSE,
          vals |-> [i \in 1..Len(args) |->
                      ReflectValue(args[i].Type, args[i].Value).val]]

\* an argument list with the task UUID put last
UnitArgsUUIDLast(task, cfg) ==
  IF cfg.TaskUUIDAsFirstArg THEN task.Args \o <<Arg("string", task.UUID)>>
                            ELSE task.Args

\* worker.go:280-286: the argument list consumeOne decodes
UnitArgs(task, cfg) ==
  IF cfg.TaskUUIDAsFirstArg THEN <<Arg("string", task.UUID)>> \o task.Args
                            ELSE task.Args

\* ------------------------------------------------------------------ state
VARIABLES
  connected,       \* s.con.connected
  workers,         \* s.workers: the registry, name -> worker
  lastNew,         \* what the last NewWorker call returned
  limit,           \* w.limit
  working,         \* w.working
  gen,             \* number of init calls; names w.stopConsume/consumingStopped
  wch,             \* w.ch: 0 is the setup channel of NewWorker, else a Gen
  stopClosed,      \* stopClosed[g]: close(w.stopConsume) was done on pair g
  stoppedClosed,   \* same for w.consumingStopped
  chans,           \* broker channels opened by init
  loops,           \* consumption loops, one per successful init
  tasksInProgress, \* the WaitGroup counter
  dl,              \* deliveries and their execution units
  nextId,          \* next delivery the broker hands out
  closer,          \* position of each Close call
  lastStart,       \* what the last Start call returned
  crashed          \* the process died of an unrecovered panic

serverVars == <<connected, workers, lastNew>>
workerVars == <<limit, working, gen, wch, stopClosed, stoppedClosed, chans,
                loops, tasksInProgress, dl, nextId, closer, lastStart,
                crashed>>
vars == <<connected, workers, lastNew, limit, working, gen, wch, stopClosed,
          stoppedClosed, chans, loops, tasksInProgress, dl, nextId, closer,
          lastStart, crashed>>

NoChan == [state |-> "none", prefetch |-> 0, consuming |-> FALSE]
NoLoop == [pc |-> "none", stop |-> 0]
NoDelivery ==
  [body |-> 0, ch |-> 0, pc |-> "none", inv |-> "none", acks |-> 0,
   nacks |-> 0, requeue |-> FALSE, args |-> <<>>]

\* What is left of delivery r once the loop or its execution unit is through
\* with it: the decisions issued for it and its invocation goroutine.  The
\* delivery itself and the unit's locals are gone.
Settled(r, pc) ==
  [r EXCEPT !.pc = pc, !.body = 0, !.ch = 0, !.args = <<>>]

\* ------------------------------------------------------------ NewWorker
\* configurations the client may pass to NewWorker
NameSet == {"", "w1", "w2"}
QueueSet == {"", "q1", "q2"}
KeySet == {<<>>, <<"k1">>, <<"k1", "k2">>}
Configs ==
  [Name : NameSet, Queue : QueueSet, Limit : 0..MaxLimit, BindingKeys : KeySet]

\* what the broker does to the setup calls of one NewWorker: the call that
\* fails (at), and for a bind the index of the binding key that fails
BrokerFaults ==
  [at : {"none", "channel", "declare"}, key : {0}] \cup
  [at : {"bind"}, key : {1, 2}]

\* a NewWorker that keeps a zero Limit
EffectiveLimitNoDefault(l) == l

\* worker.go:75-77
EffectiveLimit(l) == IF l = 0 THEN DefaultLimit ELSE l

\* worker.go:87-94
MakeWorker(cfg) ==
  [name |-> cfg.Name, queue |-> cfg.Queue, limit |-> EffectiveLimit(cfg.Limit)]

\* worker.go:111-119: the bind loop fails at the first key the broker refuses
BindFails(cfg, fault) ==
  fault.at = "bind" /\ fault.key \in 1..Len(cfg.BindingKeys)

\* s.workers[cfg.Name] = w, worker.go:121
Register(reg, w) ==
  [n \in DOMAIN reg \cup {w.name} |-> IF n = w.name THEN w ELSE reg[n]]

\* worker.go:65-125: the error NewWorker returns ("none": it returns w, nil)
NewWorkerErr(conn, reg, cfg, fault) ==
  IF ~conn THEN "notConnected"
  ELSE IF cfg.Name = "" THEN "name"
  ELSE IF cfg.Queue = "" THEN "queue"
  ELSE IF cfg.Name \in DOMAIN reg THEN "exists"
  ELSE IF fault.at = "channel" THEN "channel"
  ELSE IF fault.at = "declare" THEN "declare"
  ELSE IF BindFails(cfg, fault) THEN "bind"
  ELSE "none"

\* a NewWorker that registers the worker before the queue is declared and bound
NewWorkerRegistryEarly(conn, reg, cfg, fault) ==
  IF NewWorkerErr(conn, reg, cfg, fault) \in {"none", "channel", "declare", "bind"}
    THEN Register(reg, MakeWorker(cfg))
    ELSE reg

\* worker.go:65-125: the registry NewWorker leaves behind
NewWorkerRegistry(conn, reg, cfg, fault) ==
  IF NewWorkerErr(conn, reg, cfg, fault) = "none"
    THEN Register(reg, MakeWorker(cfg))
    ELSE reg

NewWorker(cfg, fault) ==
  /\ workers' = NewWorkerRegistry(connected, workers, cfg, fault)
  /\ lastNew' = [err |-> NewWorkerErr(connected, workers, cfg, fault),
                 name |-> cfg.Name,
                 cfgLimit |-> cfg.Limit,
                 limit |-> IF NewWorkerErr(connected, workers, cfg, fault) = "none"
                             THEN MakeWorker(cfg).limit ELSE 0]
  /\ UNCHANGED <<connected>>
  /\ UNCHANGED workerVars

\* the connection owner gains or loses its AMQP connection
ConnectionChange ==
  /\ connected' = ~connected
  /\ UNCHANGED <<workers, lastNew>>
  /\ UNCHANGED workerVars

\* ----------------------------------------------------------- Start / init
StartOutcomes == {"ok", "channel", "qos", "consume"}

\* a Qos call that grants one delivery more than the limit
PrefetchCountOffByOne == limit + 1

\* worker.go:154-155: the prefetch count init passes to w.ch.Qos
PrefetchCount == limit

\* an init that launches the consumption loop on the first start only
initLoopOnce(outcome) ==
  /\ working' = TRUE
  /\ gen' = gen + 1
  /\ wch' = IF outcome = "channel" THEN -1 ELSE gen + 1
  /\ chans' = [chans EXCEPT ![gen + 1] =
       IF outcome = "channel" THEN NoChan
       ELSE [state |-> "open",
             prefetch |-> IF outcome = "qos" THEN 0 ELSE PrefetchCount,
             consuming |-> outcome = "ok"]]
  /\ loops' = [loops EXCEPT ![gen + 1] =
       IF outcome = "ok" /\ gen = 0
         THEN [pc |-> "select", stop |-> gen + 1] ELSE NoLoop]
  /\ lastStart' = outcome

\* worker.go:140-179: init with the broker failing at `outcome`
init(outcome) ==
  /\ working' = TRUE
  /\ gen' = gen + 1
  /\ wch' = IF outcome = "channel" THEN -1 ELSE gen + 1
  /\ chans' = [chans EXCEPT ![gen + 1] =
       IF outcome = "channel" THEN NoChan
       ELSE [state |-> "open",
             prefetch |-> IF outcome = "qos" THEN 0 ELSE PrefetchCount,
             consuming |-> outcome = "ok"]]
  /\ loops' = [loops EXCEPT ![gen + 1] =
       IF outcome = "ok" THEN [pc |-> "select", stop |-> gen + 1] ELSE NoLoop]
  /\ lastStart' = outcome

\* worker.go:130-138; sconn is s.con.connected of the server passed in
Start(sconn) ==
  /\ ~crashed
  /\ closer[1] = "idle"
  /\ gen < MaxStarts
  /\ IF ~sconn
       THEN /\ lastStart' = "notConnected"
            /\ UNCHANGED <<working, gen, wch, chans, loops>>
       ELSE \E outcome \in StartOutcomes : init(outcome)
  /\ UNCHANGED <<limit, stopClosed, stoppedClosed, tasksInProgress, dl,
                 nextId, closer, crashed>>
  /\ UNCHANGED serverVars

\* ---------------------------------------------------------------- broker
\* deliveries waiting in the deliveries channel of broker channel g
Buffered(g) == {d \in Ids : dl[d].pc = "buffered" /\ dl[d].ch = g}

\* deliveries handed out on g for which no Ack or Nack was issued
Unacked(g) ==
  {d \in Ids : dl[d].ch = g /\ dl[d].pc # "none" /\ dl[d].acks + dl[d].nacks = 0}

\* basic.qos prefetch count (global=false): 0 means no limit
PrefetchAllows(g) ==
  chans[g].prefetch = 0 \/ Cardinality(Unacked(g)) < chans[g].prefetch

\* the broker pushes the next queued message to the consumer of channel g
BrokerDeliver(g) ==
  /\ ~crashed
  /\ chans[g].state = "open"
  /\ chans[g].consuming
  /\ PrefetchAllows(g)
  /\ nextId <= MaxDeliveries
  /\ \E b \in BodyIds :
       dl' = [dl EXCEPT ![nextId] =
                [NoDelivery EXCEPT !.body = b, !.ch = g, !.pc = "buffered"]]
  /\ nextId' = nextId + 1
  /\ UNCHANGED <<limit, working, gen, wch, stopClosed, stoppedClosed, chans,
                 loops, tasksInProgress, closer, lastStart, crashed>>
  /\ UNCHANGED serverVars

\* the broker or the connection closes channel g under the worker
ChannelDown(g) ==
  /\ ~crashed
  /\ chans[g].state = "open"
  /\ chans[g].consuming
  /\ chans' = [chans EXCEPT ![g].state = "down"]
  /\ UNCHANGED <<limit, working, gen, wch, stopClosed, stoppedClosed, loops,
                 tasksInProgress, dl, nextId, closer, lastStart , crashed>>
  /\ UNCHANGED serverVars

\* d.Ack / d.Nack return an error when the delivery's channel is not open
AckErr(d) == chans[dl[d].ch].state # "open"

\* worker.go:186-188: the loop comes back to its select and reads
\* w.stopConsume, which a later init may have replaced (144) without any
\* synchronisation: it gets the signal it had or the one of the last init
NextSelect(g) ==
  {[pc |-> "select", stop |-> s] : s \in {loops[g].stop, gen}}

\* ------------------------------------------------------ consumption loop
\* a loop that asks the broker to requeue whatever it rejects
LoopNackAlwaysRequeue(g, d, requeue) ==
  /\ dl' = [dl EXCEPT ![d] =
       Settled([@ EXCEPT !.nacks = @ + 1, !.requeue = TRUE], "rejected")]
  /\ loops' = [loops EXCEPT ![g] =
       IF AckErr(d) THEN [pc |-> "failed", stop |-> 0]
                    ELSE [pc |-> "select", stop |-> gen]]
  /\ UNCHANGED tasksInProgress

\* a loop that never asks the broker to requeue what it rejects
LoopNackNeverRequeue(g, d, requeue) ==
  /\ dl' = [dl EXCEPT ![d] =
       Settled([@ EXCEPT !.nacks = @ + 1, !.requeue = FALSE], "rejected")]
  /\ loops' = [loops EXCEPT ![g] =
       IF AckErr(d) THEN [pc |-> "failed", stop |-> 0]
                    ELSE [pc |-> "select", stop |-> gen]]
  /\ UNCHANGED tasksInProgress

\* worker.go:202, 213, 225: Nack in the loop; on an error the loop returns,
\* otherwise it continues with the next select
LoopNack(g, d, requeue) ==
  /\ dl' = [dl EXCEPT ![d] =
       Settled([@ EXCEPT !.nacks = @ + 1, !.requeue = requeue], "rejected")]
  /\ IF AckErr(d)
       THEN loops' = [loops EXCEPT ![g] = [pc |-> "failed", stop |-> 0]]
       ELSE \E r \in NextSelect(g) : loops' = [loops EXCEPT ![g] = r]
  /\ UNCHANGED tasksInProgress

\* a loop that returns after spawning a unit when the channel is gone
LoopAcceptReturns(g, d) ==
  /\ tasksInProgress' = tasksInProgress + 1
  /\ dl' = [dl EXCEPT ![d].pc = "spawned"]
  /\ loops' = [loops EXCEPT ![g] =
       IF AckErr(d) THEN [pc |-> "failed", stop |-> 0]
                    ELSE [pc |-> "select", stop |-> gen]]

\* worker.go:234-236: Add(1) and go consumeOne
LoopAccept(g, d) ==
  /\ tasksInProgress' = tasksInProgress + 1
  /\ dl' = [dl EXCEPT ![d].pc = "spawned"]
  /\ \E r \in NextSelect(g) : loops' = [loops EXCEPT ![g] = r]

\* a loop that runs consumeOne itself: it takes the next delivery only when
\* no execution unit is running
LoopDeliveryInline(g) ==
  /\ ~crashed
  /\ loops[g].pc = "select"
  /\ Buffered(g) # {}
  /\ \A x \in Ids : dl[x].pc \notin {"spawned", "sync", "wait"}
  /\ LET d == CHOOSE x \in Buffered(g) : \A y \in Buffered(g) : x <= y
         b == Bodies[dl[d].body]
     IN IF BodyLen(b) = 0 THEN LoopNack(g, d, FALSE)
        ELSE IF Unmarshal(b).err THEN LoopNack(g, d, FALSE)
        ELSE IF Unmarshal(b).task.Name \notin DOMAIN Tasks
          THEN LoopNack(g, d, TRUE)
          ELSE LoopAccept(g, d)
  /\ UNCHANGED <<limit, working, gen, wch, stopClosed, stoppedClosed, chans,
                 nextId, closer, lastStart, crashed>>
  /\ UNCHANGED serverVars

\* worker.go:196-236: case d := <-deliveries, for the oldest waiting delivery
LoopDelivery(g) ==
  /\ ~crashed
  /\ loops[g].pc = "select"
  /\ Buffered(g) # {}
  /\ LET d == CHOOSE x \in Buffered(g) : \A y \in Buffered(g) : x <= y
         b == Bodies[dl[d].body]
     IN IF BodyLen(b) = 0 THEN LoopNack(g, d, FALSE)
        ELSE IF Unmarshal(b).err THEN LoopNack(g, d, FALSE)
        ELSE IF Unmarshal(b).task.Name \notin DOMAIN Tasks
          THEN LoopNack(g, d, TRUE)
          ELSE LoopAccept(g, d)
  /\ UNCHANGED <<limit, working, gen, wch, stopClosed, stoppedClosed, chans,
                 nextId, closer, lastStart, crashed>>
  /\ UNCHANGED serverVars

\* worker.go:196-205: the deliveries channel of a closed broker channel
\* yields the zero Delivery; its body is empty and its Nack returns an error
LoopClosedDeliveries(g) ==
  /\ ~crashed
  /\ loops[g].pc = "select"
  /\ chans[g].state # "open"
  /\ Buffered(g) = {}
  /\ BodyLen(ZeroBody) = 0
  /\ loops' = [loops EXCEPT ![g] = [pc |-> "failed", stop |-> 0]]
  /\ UNCHANGED <<limit, working, gen, wch, stopClosed, stoppedClosed, chans,
                 tasksInProgress, dl, nextId, closer, lastStart , crashed>>
  /\ UNCHANGED serverVars

\* -------------------------------------------------------- execution unit
TaskOf(d) == Unmarshal(Bodies[dl[d].body]).task
ConfigOf(d) == Tasks[TaskOf(d).Name]

\* a unit that nacks an undecodable delivery and goes on to call the handler
UnitDecodeNoReturn(d) ==
  /\ ~crashed
  /\ dl[d].pc = "spawned"
  /\ LET r == reflectArgs(UnitArgs(TaskOf(d), ConfigOf(d)))
     IN dl' = [dl EXCEPT
                 ![d].nacks = IF r.err THEN @ + 1 ELSE @,
                 ![d].args = r.vals,
                 ![d].pc = IF ConfigOf(d).TimeoutSeconds = 0
                             THEN "sync" ELSE "wait",
                 ![d].inv = IF ConfigOf(d).TimeoutSeconds = 0
                             THEN "none" ELSE "running"]
  /\ UNCHANGED <<limit, working, gen, wch, stopClosed, stoppedClosed, chans,
                 loops, tasksInProgress, nextId, closer, lastStart, crashed>>
  /\ UNCHANGED serverVars

\* worker.go:271-293 and 320-338: consumeOne up to the handler invocation
UnitDecode(d) ==
  /\ ~crashed
  /\ dl[d].pc = "spawned"
  /\ LET r == reflectArgs(UnitArgs(TaskOf(d), ConfigOf(d)))
     IN IF r.err
          THEN /\ dl' = [dl EXCEPT ![d] =
                    Settled([@ EXCEPT !.nacks = @ + 1, !.requeue = FALSE],
                            "done")]
               /\ tasksInProgress' = tasksInProgress - 1
          ELSE /\ dl' = [dl EXCEPT
                   ![d].args = r.vals,
                   ![d].pc = IF ConfigOf(d).TimeoutSeconds = 0
                               THEN "sync" ELSE "wait",
                   ![d].inv = IF ConfigOf(d).TimeoutSeconds = 0
                               THEN "none" ELSE "running"]
               /\ UNCHANGED tasksInProgress
  /\ UNCHANGED <<limit, working, gen, wch, stopClosed, stoppedClosed, chans,
                 loops, nextId, closer, lastStart, crashed>>
  /\ UNCHANGED serverVars

\* worker.go:296-304 and 272: consumeOne after tryCall has returned, whatever
\* it returned: d.Ack(false), then the deferred Done
UnitAck(d, inv) ==
  /\ dl' = [dl EXCEPT ![d] =
       Settled([@ EXCEPT !.acks = @ + 1, !.inv = inv], "done")]
  /\ tasksInProgress' = tasksInProgress - 1

\* worker.go:322-331: f.Call in the unit itself returns, or panics and the
\* deferred recover makes tryCall return false; the unit then acks
HandlerSync(d) ==
  /\ ~crashed
  /\ dl[d].pc = "sync"
  /\ \E panics \in BOOLEAN : UnitAck(d, "none")
  /\ UNCHANGED <<limit, working, gen, wch, stopClosed, stoppedClosed, chans,
                 loops, nextId, closer, lastStart, crashed>>
  /\ UNCHANGED serverVars

\* worker.go:336-338: f.Call in the invocation goroutine returns and the
\* goroutine blocks sending on resultsChan; a panic there is outside the
\* recover of tryCall and ends the process
HandlerAsync(d) ==
  /\ ~crashed
  /\ dl[d].inv = "running"
  /\ \E panics \in BOOLEAN :
       /\ dl' = [dl EXCEPT ![d].inv = IF panics THEN "panicked" ELSE "sending"]
       /\ crashed' = panics
  /\ UNCHANGED <<limit, working, gen, wch, stopClosed, stoppedClosed, chans,
                 loops, tasksInProgress, nextId, closer, lastStart>>
  /\ UNCHANGED serverVars

\* worker.go:343-347: case <-resultsChan; the invocation goroutine ends and
\* the unit acks
GuardResult(d) ==
  /\ ~crashed
  /\ dl[d].pc = "wait"
  /\ dl[d].inv = "sending"
  /\ UnitAck(d, "none")
  /\ UNCHANGED <<limit, working, gen, wch, stopClosed, stoppedClosed, chans,
                 loops, nextId, closer, lastStart, crashed>>
  /\ UNCHANGED serverVars

\* worker.go:341-342: case <-timer.C; the invocation goroutine is left as it
\* is and the unit acks
GuardTimeout(d) ==
  /\ ~crashed
  /\ dl[d].pc = "wait"
  /\ UnitAck(d, dl[d].inv)
  /\ UNCHANGED <<limit, working, gen, wch, stopClosed, stoppedClosed, chans,
                 loops, nextId, closer, lastStart, crashed>>
  /\ UNCHANGED serverVars

\* ------------------------------------------------------------------ Close
\* a Close that does not look at the working flag
CloseCheckAlways(c) ==
  /\ ~crashed
  /\ closer[c] = "idle"
  /\ closer' = [closer EXCEPT ![c] = "setFlag"]
  /\ UNCHANGED <<limit, working, gen, wch, stopClosed, stoppedClosed, chans,
                 loops, tasksInProgress, dl, nextId, lastStart, crashed>>
  /\ UNCHANGED serverVars

\* worker.go:251-253: the working check; a worker that is not working returns
CloseCheck(c) ==
  /\ ~crashed
  /\ closer[c] = "idle"
  /\ IF ~working
       THEN UNCHANGED closer
       ELSE closer' = [closer EXCEPT ![c] = "setFlag"]
  /\ UNCHANGED <<limit, working, gen, wch, stopClosed, stoppedClosed, chans,
                 loops, tasksInProgress, dl, nextId, lastStart, crashed>>
  /\ UNCHANGED serverVars

\* worker.go:255
CloseSetFlag(c) ==
  /\ ~crashed
  /\ closer[c] = "setFlag"
  /\ working' = FALSE
  /\ closer' = [closer EXCEPT ![c] = "sendStop"]
  /\ UNCHANGED <<limit, gen, wch, stopClosed, stoppedClosed, chans, loops,
                 tasksInProgress, dl, nextId, lastStart, crashed>>
  /\ UNCHANGED serverVars

\* worker.go:257 with 188: the stop signal is handed to a loop that waits in
\* its select on this stopConsume; the loop goes on to send on
\* consumingStopped (a send on a closed stopConsume panics)
CloseSendStop(c) ==
  /\ ~crashed
  /\ closer[c] = "sendStop"
  /\ IF stopClosed[gen]
       THEN /\ crashed' = TRUE
            /\ UNCHANGED <<loops, closer>>
       ELSE /\ \E g \in Gens :
                 /\ loops[g].pc = "select"
                 /\ loops[g].stop = gen
                 /\ loops' = [loops EXCEPT ![g] = [pc |-> "stopping",
                                                   stop |-> gen]]
            /\ closer' = [closer EXCEPT ![c] = "closeStop"]
            /\ UNCHANGED crashed
  /\ UNCHANGED <<limit, working, gen, wch, stopClosed, stoppedClosed, chans,
                 tasksInProgress, dl, nextId, lastStart>>
  /\ UNCHANGED serverVars

\* worker.go:258 (closing a closed channel panics)
CloseCloseStop(c) ==
  /\ ~crashed
  /\ closer[c] = "closeStop"
  /\ IF stopClosed[gen]
       THEN /\ crashed' = TRUE
            /\ UNCHANGED <<stopClosed, closer>>
       ELSE /\ stopClosed' = [stopClosed EXCEPT ![gen] = TRUE]
            /\ closer' = [closer EXCEPT ![c] = "recvStopped"]
            /\ UNCHANGED crashed
  /\ UNCHANGED <<limit, working, gen, wch, stoppedClosed, chans, loops,
                 tasksInProgress, dl, nextId, lastStart>>
  /\ UNCHANGED serverVars

\* worker.go:260 with 192-194: the stop-acknowledgment is received from the
\* loop, which returns (a closed consumingStopped yields at once)
CloseRecvStopped(c) ==
  /\ ~crashed
  /\ closer[c] = "recvStopped"
  /\ IF stoppedClosed[gen]
       THEN UNCHANGED loops
       ELSE \E g \in Gens :
              /\ loops[g].pc = "stopping"
              /\ loops[g].stop = gen
              /\ loops' = [loops EXCEPT ![g] = [pc |-> "stopped", stop |-> 0]]
  /\ closer' = [closer EXCEPT ![c] = "closeStopped"]
  /\ UNCHANGED <<limit, working, gen, wch, stopClosed, stoppedClosed, chans,
                 tasksInProgress, dl, nextId, lastStart, crashed>>
  /\ UNCHANGED serverVars

\* worker.go:261 (closing a closed channel, or one a loop is blocked sending
\* on, panics)
CloseCloseStopped(c) ==
  /\ ~crashed
  /\ closer[c] = "closeStopped"
  /\ IF \/ stoppedClosed[gen]
        \/ \E g \in Gens : loops[g].pc = "stopping" /\ loops[g].stop = gen
       THEN /\ crashed' = TRUE
            /\ UNCHANGED <<stoppedClosed, closer>>
       ELSE /\ stoppedClosed' = [stoppedClosed EXCEPT ![gen] = TRUE]
            /\ closer' = [closer EXCEPT ![c] = "wait"]
            /\ UNCHANGED crashed
  /\ UNCHANGED <<limit, working, gen, wch, stopClosed, chans, loops,
                 tasksInProgress, dl, nextId, lastStart>>
  /\ UNCHANGED serverVars

\* a Close that does not wait for the execution units
CloseNoWait(c) ==
  /\ ~crashed
  /\ closer[c] = "wait"
  /\ closer' = [closer EXCEPT ![c] = "closeCh"]
  /\ UNCHANGED <<limit, working, gen, wch, stopClosed, stoppedClosed, chans,
                 loops, tasksInProgress, dl, nextId, lastStart, crashed>>
  /\ UNCHANGED serverVars

\* worker.go:263: tasksInProgress.Wait()
CloseWait(c) ==
  /\ ~crashed
  /\ closer[c] = "wait"
  /\ tasksInProgress = 0
  /\ closer' = [closer EXCEPT ![c] = "closeCh"]
  /\ UNCHANGED <<limit, working, gen, wch, stopClosed, stoppedClosed, chans,
                 loops, tasksInProgress, dl, nextId, lastStart , crashed>>
  /\ UNCHANGED serverVars

\* worker.go:265-269: w.ch.Close() and return (w.ch is nil after an init
\* whose con.Channel() failed)
CloseChannel(c) ==
  /\ ~crashed
  /\ closer[c] = "closeCh"
  /\ IF wch = -1
       THEN /\ crashed' = TRUE
            /\ UNCHANGED <<chans, closer>>
       ELSE /\ chans' = [g \in Gens |->
                 IF g = wch /\ chans[g].state = "open"
                   THEN [chans[g] EXCEPT !.state = "closed"] ELSE chans[g]]
            /\ closer' = [closer EXCEPT ![c] = "idle"]
            /\ UNCHANGED crashed
  /\ UNCHANGED <<limit, working, gen, wch, stopClosed, stoppedClosed, loops,
                 tasksInProgress, dl, nextId, lastStart>>
  /\ UNCHANGED serverVars

\* Close, worker.go:247-269, called by the client thread
Close ==
  \/ CloseCheck(1)
  \/ CloseSetFlag(1)
  \/ CloseSendStop(1)
  \/ CloseCloseStop(1)
  \/ CloseRecvStopped(1)
  \/ CloseCloseStopped(1)
  \/ CloseWait(1)
  \/ CloseChannel(1)

\* ------------------------------------------------------------------- Init
InitWorker ==
  /\ working = FALSE
  /\ gen = 0
  /\ wch = 0
  /\ stopClosed = [g \in Gens |-> FALSE]
  /\ stoppedClosed = [g \in Gens |-> FALSE]
  /\ chans = [g \in Gens |-> NoChan]
  /\ loops = [g \in Gens |-> NoLoop]
  /\ tasksInProgress = 0
  /\ dl = [d \in Ids |-> NoDelivery]
  /\ nextId = 1
  /\ closer = [c \in Closers |-> "idle"]
  /\ lastStart = "none"
  /\ crashed = FALSE

\* a connected server on which NewWorker has created the worker "w1"
Init ==
  /\ connected = TRUE
  /\ \E l \in 0..MaxLimit :
       LET cfg == [Name |-> "w1", Queue |-> "q1", Limit |-> l,
                   BindingKeys |-> <<>>]
       IN /\ workers = Register(<<>>, MakeWorker(cfg))
          /\ lastNew = [err |-> "none", name |-> "w1", cfgLimit |-> l,
                        limit |-> MakeWorker(cfg).limit]
          /\ limit = MakeWorker(cfg).limit
  /\ InitWorker

\* a server with an empty registry
InitNew ==
  /\ connected \in BOOLEAN
  /\ workers = <<>>
  /\ lastNew = [err |-> "init", name |-> "", cfgLimit |-> 0, limit |-> 0]
  /\ limit = 0
  /\ InitWorker

NextNew ==
  \/ \E cfg \in Configs, fault \in BrokerFaults : NewWorker(cfg, fault)
  \/ ConnectionChange

SpecNew == InitNew /\ [][NextNew]_vars

\* a consumption loop of the worker is running
LiveLoop(g) == loops[g].pc \in {"select", "stopping"}

\* The client follows the Worker lifecycle created -> started -> closed: it
\* calls Start and Close from one thread, and calls Start only on a worker
\* whose init has not run yet.
ClientStart ==
  /\ gen = 0
  /\ \E sconn \in BOOLEAN : Start(sconn)

Next ==
  \/ ClientStart
  \/ Close
  \/ \E g \in Gens : BrokerDeliver(g)
  \/ \E g \in Gens : ChannelDown(g)
  \/ \E g \in Gens : LoopDelivery(g)
  \/ \E g \in Gens : LoopClosedDeliveries(g)
  \/ \E d \in Ids : UnitDecode(d)
  \/ \E d \in Ids : HandlerSync(d)
  \/ \E d \in Ids : HandlerAsync(d)
  \/ \E d \in Ids : GuardResult(d)
  \/ \E d \in Ids : GuardTimeout(d)

Spec == Init /\ [][Next]_vars

\* ------------------------------------------------------- restarting client
\* Close has run to its end on the started worker: the flag is cleared, the
\* loop has answered the stop signal and returned, both signals are closed
\* and no Close call is under way (worker.go:255-265)
Closed ==
  /\ gen > 0
  /\ ~working
  /\ closer[1] = "idle"
  /\ stopClosed[gen]
  /\ stoppedClosed[gen]
  /\ loops[gen].pc = "stopped"

\* The client calls Start again, once, on the worker it has closed.
ClientRestart ==
  /\ Closed
  /\ gen = 1
  /\ \E sconn \in BOOLEAN : Start(sconn)

\* The worker under a client that starts it, closes it and starts it again,
\* on a broker channel that stays up.
NextRestart ==
  \/ ClientStart
  \/ ClientRestart
  \/ Close
  \/ \E g \in Gens : BrokerDeliver(g)
  \/ \E g \in Gens : LoopDelivery(g)
  \/ \E d \in Ids : UnitDecode(d)
  \/ \E d \in Ids : HandlerSync(d)
  \/ \E d \in Ids : HandlerAsync(d)
  \/ \E d \in Ids : GuardResult(d)
  \/ \E d \in Ids : GuardTimeout(d)

SpecRestart == Init /\ [][NextRestart]_vars

\* ------------------------------------------------------ unrestricted client
\* worker.go:188-192: the stop signal the loop waits on has been closed, the
\* receive yields at once and the loop sends on w.consumingStopped, which is
\* a panic if that signal is closed already
LoopStopClosed(g) ==
  /\ ~crashed
  /\ loops[g].pc = "select"
  /\ stopClosed[loops[g].stop]
  /\ IF stoppedClosed[gen]
       THEN /\ crashed' = TRUE
            /\ UNCHANGED loops
       ELSE /\ loops' = [loops EXCEPT ![g] = [pc |-> "stopping",
                                               stop |-> gen]]
            /\ UNCHANGED crashed
  /\ UNCHANGED <<limit, working, gen, wch, stopClosed, stoppedClosed, chans,
                 tasksInProgress, dl, nextId, closer, lastStart>>
  /\ UNCHANGED serverVars

\* The client calls Start whenever it likes, also on a worker that is
\* running, one call at a time.  The broker channels stay up.
ClientAnyStart == \E sconn \in BOOLEAN : Start(sconn)

NextAny ==
  \/ ClientAnyStart
  \/ Close
  \/ \E g \in Gens : BrokerDeliver(g)
  \/ \E g \in Gens : LoopDelivery(g)
  \/ \E g \in Gens : LoopStopClosed(g)
  \/ \E d \in Ids : UnitDecode(d)
  \/ \E d \in Ids : HandlerSync(d)
  \/ \E d \in Ids : HandlerAsync(d)
  \/ \E d \in Ids : GuardResult(d)
  \/ \E d \in Ids : GuardTimeout(d)

SpecAny == Init /\ [][NextAny]_vars

\* --------------------------------------------------------- concurrent Close
\* Close, worker.go:247-269, called by client thread c
CloseBy(c) ==
  \/ CloseCheck(c)
  \/ CloseSetFlag(c)
  \/ CloseSendStop(c)
  \/ CloseCloseStop(c)
  \/ CloseRecvStopped(c)
  \/ CloseCloseStopped(c)
  \/ CloseWait(c)
  \/ CloseChannel(c)

\* The worker under a client that starts it once and calls Close from two
\* threads.
NextConc ==
  \/ ClientStart
  \/ \E c \in Closers : CloseBy(c)
  \/ \E g \in Gens : BrokerDeliver(g)
  \/ \E g \in Gens : ChannelDown(g)
  \/ \E g \in Gens : LoopDelivery(g)
  \/ \E g \in Gens : LoopClosedDeliveries(g)
  \/ \E d \in Ids : UnitDecode(d)
  \/ \E d \in Ids : HandlerSync(d)
  \/ \E d \in Ids : HandlerAsync(d)
  \/ \E d \in Ids : GuardResult(d)
  \/ \E d \in Ids : GuardTimeout(d)

SpecConc == Init /\ [][NextConc]_vars

\* ------------------------------------------------------------- scheduling
\* The Go scheduler runs every goroutine that can take a step: the loop, the
\* execution units, the handlers and their timers; and the broker hands out a
\* queued message whenever the prefetch window allows.  The client's calls and
\* the loss of the channel are not forced to happen.
Fairness ==
  /\ \A g \in Gens : WF_vars(BrokerDeliver(g))
  /\ \A g \in Gens : WF_vars(LoopDelivery(g))
  /\ \A g \in Gens : WF_vars(LoopClosedDeliveries(g))
  /\ \A d \in Ids : WF_vars(UnitDecode(d))
  /\ \A d \in Ids : WF_vars(HandlerSync(d))
  /\ \A d \in Ids : WF_vars(HandlerAsync(d))
  /\ \A d \in Ids : WF_vars(GuardResult(d) \/ GuardTimeout(d))

FairSpec == Spec /\ Fairness

\* A Close call that has been made runs on whenever it can: its goroutine is
\* scheduled, and the loop takes the stop case of its select when a sender
\* is waiting there.
CloseRuns == closer[1] # "idle" /\ Close

FairCloseSpec == Spec /\ Fairness /\ WF_vars(CloseRuns)

\* ================================================================ claims
\* the consumption loop spawned an execution unit for delivery d
Accepted(d) == dl[d].pc \in {"spawned", "sync", "wait", "done"}

Decisions(r) == r.acks + r.nacks

\* deliveries the broker counts as unacknowledged: handed out on a channel
\* that is still open, with no Ack or Nack issued
Outstanding ==
  {d \in Ids : /\ dl[d].ch \in Gens
               /\ chans[dl[d].ch].state = "open"
               /\ d \in Unacked(dl[d].ch)}

\* the loop takes delivery d off the deliveries channel of g in this step
LoopTakes(g, d) ==
  /\ dl[d].pc = "buffered"
  /\ dl[d].ch = g
  /\ dl'[d].pc # "buffered"

StartFailures == {"channel", "qos", "consume"}

\* C1: every accepted delivery gets exactly one of Ack or Nack: never two,
\* and never zero once its execution unit has ended or the process has died.
C1_ExactlyOneDecision ==
  \A d \in Ids :
    Accepted(d) =>
      /\ Decisions(dl[d]) <= 1
      /\ (dl[d].pc = "done" \/ crashed) => Decisions(dl[d]) = 1

\* C2: the deliveries handed to the worker and neither acked nor nacked,
\* waiting in the deliveries channel or being executed, number at most Limit.
C2_OutstandingAtMostLimit == Cardinality(Outstanding) <= limit

\* the broker holds a message back because Limit deliveries are outstanding
C2_Witness ==
  /\ Cardinality(Outstanding) = limit
  /\ nextId <= MaxDeliveries
  /\ \E g \in Gens : /\ chans[g].state = "open"
                     /\ chans[g].consuming
                     /\ ~PrefetchAllows(g)

\* C3: when Close on a working worker returns, no consumption loop runs, the
\* in-flight counter is zero and every accepted delivery has its Ack or Nack;
\* the channel is closed in that same step, and no Ack or Nack is issued on a
\* channel that Close has closed.
C3_CloseReturnsDrained ==
  /\ [][(closer[1] = "closeCh" /\ closer'[1] = "idle") =>
          /\ \A g \in Gens : ~LiveLoop(g)
          /\ tasksInProgress = 0
          /\ \A d \in Ids : Accepted(d) => Decisions(dl[d]) = 1
          /\ \A g \in Gens : chans[g].state # "closed" \/ g # wch]_vars
  /\ [][\A d \in Ids :
          Decisions(dl'[d]) > Decisions(dl[d]) =>
            dl[d].ch \in Gens /\ chans[dl[d].ch].state # "closed"]_vars

\* Close has returned after draining a worker that had acked a delivery
C3_Witness ==
  /\ closer[1] = "idle"
  /\ ~working
  /\ gen \in Gens
  /\ loops[gen].pc = "stopped"
  /\ wch = gen
  /\ chans[gen].state = "closed"
  /\ \E d \in Ids : dl[d].pc = "done" /\ dl[d].acks = 1

\* C4: a Close call on a worker that is not working returns at once: it never
\* gets past the working check, and while no Close call is under way no stop
\* signal is closed and no channel gets closed; a Close that completes leaves
\* the worker not working, so that a second Close is such a no-op.
C4_CloseIdempotent ==
  [][/\ (closer[1] = "idle" /\ ~working) => closer'[1] = "idle"
     /\ (closer[1] = "idle" /\ closer'[1] = "idle") =>
          /\ UNCHANGED <<stopClosed, stoppedClosed>>
          /\ \A g \in Gens : chans'[g].state = "closed" => chans[g].state = "closed"
     /\ (closer[1] = "closeCh" /\ closer'[1] = "idle") => ~working']_vars

\* a second Close can be called on a worker whose Close has completed
C4_Witness ==
  /\ ENABLED CloseCheck(1)
  /\ ~working
  /\ gen \in Gens
  /\ stopClosed[gen]
  /\ stoppedClosed[gen]
  /\ loops[gen].pc = "stopped"

\* C5: an execution unit whose timeout guard returns, by timeout or not, acks
\* its delivery and never nacks it; and whatever the handlers are doing, a
\* loop waiting in its select takes the next waiting delivery.
C5_TimeoutAcksLoopNotBlocked ==
  /\ [][\A d \in Ids :
          (dl[d].pc = "wait" /\ dl'[d].pc # "wait") =>
            /\ dl'[d].pc = "done"
            /\ dl'[d].acks = 1
            /\ dl'[d].nacks = 0]_vars
  /\ [](\A g \in Gens :
          (~crashed /\ loops[g].pc = "select" /\ Buffered(g) # {}) =>
            ENABLED LoopDelivery(g))

\* a delivery was acked on timeout, its handler still runs, and the loop has
\* accepted a later delivery that is being executed
C5_Witness ==
  \E d1, d2 \in Ids :
    /\ d1 < d2
    /\ dl[d1].pc = "done"
    /\ dl[d1].acks = 1
    /\ dl[d1].nacks = 0
    /\ dl[d1].inv = "running"
    /\ dl[d2].pc \in {"sync", "wait"}

\* C6: a handler panic never ends the process, for TimeoutSeconds = 0 and
\* for TimeoutSeconds > 0 alike.
C6_PanicIntercepted ==
  \A d \in Ids : dl[d].inv = "panicked" => ~crashed

\* C7 as stated: a delivery with an empty or unparsable body is nacked with
\* requeue=false, no unit is spawned, the counter is unchanged and the loop
\* goes on to its next select.
C7_RejectAndContinue ==
  [][\A g \in Gens : \A d \in Ids :
       (LoopTakes(g, d) /\ (BodyLen(Bodies[dl[d].body]) = 0
                            \/ Unmarshal(Bodies[dl[d].body]).err)) =>
         /\ dl'[d].pc = "rejected"
         /\ dl'[d].nacks = 1 /\ dl'[d].acks = 0 /\ ~dl'[d].requeue
         /\ tasksInProgress' = tasksInProgress
         /\ loops'[g].pc = "select"]_vars

\* C7 amended: as above, but the loop goes on to its next select only if the
\* Nack succeeded; if the Nack returned an error the loop returns.
C7_RejectAndContinueUnlessNackFails ==
  [][\A g \in Gens : \A d \in Ids :
       (LoopTakes(g, d) /\ (BodyLen(Bodies[dl[d].body]) = 0
                            \/ Unmarshal(Bodies[dl[d].body]).err)) =>
         /\ dl'[d].pc = "rejected"
         /\ dl'[d].nacks = 1 /\ dl'[d].acks = 0 /\ ~dl'[d].requeue
         /\ tasksInProgress' = tasksInProgress
         /\ loops'[g].pc = IF chans[g].state = "open" THEN "select"
                                                      ELSE "failed"]_vars

\* the loop has rejected a delivery without requeue and waits in its select
C7_Witness ==
  /\ \E d \in Ids : dl[d].pc = "rejected" /\ dl[d].nacks = 1 /\ ~dl[d].requeue
  /\ \E g \in Gens : loops[g].pc = "select"

\* C8 as stated: a delivery naming a task that is not in the dispatch table is
\* nacked with requeue=true, no unit is spawned, the counter is unchanged and
\* the loop goes on to its next select.
C8_RequeueAndContinue ==
  [][\A g \in Gens : \A d \in Ids :
       (/\ LoopTakes(g, d)
        /\ ~Unmarshal(Bodies[dl[d].body]).err
        /\ Unmarshal(Bodies[dl[d].body]).task.Name \notin DOMAIN Tasks) =>
         /\ dl'[d].pc = "rejected"
         /\ dl'[d].nacks = 1 /\ dl'[d].acks = 0 /\ dl'[d].requeue
         /\ tasksInProgress' = tasksInProgress
         /\ loops'[g].pc = "select"]_vars

\* C8 amended: as above, but the loop goes on to its next select only if the
\* Nack succeeded; if the Nack returned an error the loop returns.
C8_RequeueAndContinueUnlessNackFails ==
  [][\A g \in Gens : \A d \in Ids :
       (/\ LoopTakes(g, d)
        /\ ~Unmarshal(Bodies[dl[d].body]).err
        /\ Unmarshal(Bodies[dl[d].body]).task.Name \notin DOMAIN Tasks) =>
         /\ dl'[d].pc = "rejected"
         /\ dl'[d].nacks = 1 /\ dl'[d].acks = 0 /\ dl'[d].requeue
         /\ tasksInProgress' = tasksInProgress
         /\ loops'[g].pc = IF chans[g].state = "open" THEN "select"
                                                      ELSE "failed"]_vars

\* the loop has rejected a delivery with requeue and waits in its select
C8_Witness ==
  /\ \E d \in Ids : dl[d].pc = "rejected" /\ dl[d].nacks = 1 /\ dl[d].requeue
  /\ \E g \in Gens : loops[g].pc = "select"

\* C9: after a Start that failed in init the worker is not marked as working.
C9_FailedStartNotWorking ==
  (lastStart \in StartFailures /\ closer[1] = "idle") => ~working

\* C10: a NewWorker call that fails leaves the registry as it was; no call
\* removes or replaces an entry; and the registry changes only by a call that
\* succeeds, which adds the worker under its name.
C10_FailedNewWorkerLeavesRegistry ==
  [][/\ lastNew'.err # "none" => workers' = workers
     /\ \A n \in DOMAIN workers :
          n \in DOMAIN workers' /\ workers'[n] = workers[n]
     /\ workers' # workers =>
          /\ lastNew'.err = "none"
          /\ DOMAIN workers' = DOMAIN workers \cup {lastNew'.name}
          /\ lastNew'.name \notin DOMAIN workers]_vars

\* a second NewWorker with a registered name has failed, and the registry
\* holds the first worker
C10_Witness ==
  /\ lastNew.err = "exists"
  /\ lastNew.name \in DOMAIN workers
  /\ workers[lastNew.name].queue = "q1"

\* C11 as stated: once Close has completed on the worker, no later step,
\* a Start included, marks it working again or launches a consumption loop.
C11_ClosedIsTerminal ==
  [][Closed =>
       /\ ~working'
       /\ \A g \in Gens : LiveLoop(g)' => LiveLoop(g)]_vars

\* C11 amended: once Close has completed on the worker, it stays not working
\* and without a new consumption loop until Start runs init on it again; a
\* Start that succeeds then marks it working and launches a new loop.
C11_ClosedUntilStartedAgain ==
  [][Closed =>
       IF gen' = gen
         THEN /\ ~working'
              /\ \A g \in Gens : LiveLoop(g)' => LiveLoop(g)
         ELSE /\ gen' = gen + 1
              /\ working'
              /\ lastStart' = "ok" => loops'[gen'].pc = "select"]_vars

\* the closed worker has been started again and its new loop is running
C11_Witness ==
  /\ gen = 2
  /\ stoppedClosed[1]
  /\ loops[1].pc = "stopped"
  /\ lastStart = "ok"
  /\ working
  /\ loops[2].pc = "select"

\* the body names a registered task whose arguments decode
GoodBody(b) ==
  LET task == Unmarshal(Bodies[b]).task
  IN /\ BodyLen(Bodies[b]) > 0
     /\ Unmarshal(Bodies[b]).err = FALSE
     /\ task.Name \in DOMAIN Tasks
     /\ ~reflectArgs(UnitArgs(task, Tasks[task.Name])).err

\* a message of that kind is with the worker and not acknowledged yet
Pending(d) == dl[d].body # 0 /\ GoodBody(dl[d].body)

\* the worker is no longer running undisturbed: Close was requested or the
\* broker channel is gone
Interrupted ==
  \/ closer[1] # "idle"
  \/ ~working
  \/ gen > 0 /\ chans[gen].state # "open"

\* C12: while the worker is running and no Close is requested, the broker
\* keeps handing out the queued messages (also beyond Limit of them), and
\* every message that names a registered task with decodable arguments is
\* whose own handler does not panic under the timeout guard is eventually
\* acknowledged positively.
C12_GoodMessagesEventuallyAcked ==
  /\ \A d \in Ids :
       Pending(d) ~> \/ dl[d].pc = "done" /\ dl[d].acks = 1
                     \/ dl[d].inv = "panicked"
                     \/ Interrupted
  /\ (lastStart = "ok" /\ nextId <= MaxDeliveries)
       ~> (nextId > MaxDeliveries \/ Interrupted)

\* the same, for as long as no handler has brought the process down
C12_AckedUnlessCrashed ==
  /\ \A d \in Ids :
       Pending(d) ~> \/ dl[d].pc = "done" /\ dl[d].acks = 1
                     \/ Interrupted
                     \/ crashed
  /\ (lastStart = "ok" /\ nextId <= MaxDeliveries)
       ~> (nextId > MaxDeliveries \/ Interrupted \/ crashed)

\* the declared arguments of the task in delivery d, as sent
Declared(d) == Bodies[dl[d].body].task.Args

\* C13: the handler of a task configured with TaskUUIDAsFirstArg is called
\* with the task UUID as a string followed by the declared arguments in their
\* order; the handler of any other task is called with exactly the declared
\* arguments in their order.
C13_HandlerArguments ==
  \A d \in Ids :
    dl[d].pc \in {"sync", "wait"} =>
      LET task == Bodies[dl[d].body].task
          n == Len(Declared(d))
          off == IF Tasks[task.Name].TaskUUIDAsFirstArg THEN 1 ELSE 0
      IN /\ Len(dl[d].args) = n + off
         /\ off = 1 => dl[d].args[1] = <<"string", task.UUID>>
         /\ \A i \in 1..n :
              dl[d].args[i + off] = <<Declared(d)[i].Type, Declared(d)[i].Value>>

\* one handler is being called with the UUID in front of two declared
\* arguments, another with its two declared arguments only
C13_Witness ==
  \E d, e \in Ids :
    /\ dl[d].pc = "wait"
    /\ Tasks[Bodies[dl[d].body].task.Name].TaskUUIDAsFirstArg
    /\ Len(dl[d].args) = 3
    /\ dl[e].pc = "sync"
    /\ ~Tasks[Bodies[dl[e].body].task.Name].TaskUUIDAsFirstArg
    /\ Len(dl[e].args) = 2

\* C14: a worker created with Limit 0 has the concurrency cap 3, a worker
\* created with another Limit has that Limit, and the prefetch count that a
\* Start sets on the broker channel is that cap.
C14_LimitAndPrefetch ==
  LET cap == IF lastNew.cfgLimit = 0 THEN 3 ELSE lastNew.cfgLimit
  IN /\ limit = cap
     /\ workers[lastNew.name].limit = cap
     /\ lastStart \in {"ok", "consume"} => chans[gen].prefetch = cap

\* a worker created with Limit 0 is consuming with a prefetch count of 3 and
\* three deliveries are outstanding
C14_Witness ==
  /\ lastNew.cfgLimit = 0
  /\ lastStart = "ok"
  /\ chans[gen].consuming
  /\ chans[gen].prefetch = 3
  /\ Cardinality(Outstanding) = 3

\* the arguments of the accepted delivery d do not all decode
Undecodable(d) ==
  /\ dl[d].pc = "spawned"
  /\ \E i \in 1..Len(Declared(d)) : Declared(d)[i].Type \notin KnownTypes

\* C15: when an argument of an accepted delivery fails to decode, the unit
\* ends without calling the handler, with one nack (requeue=false) and no
\* ack, and with the in-flight counter decremented; no later step calls the
\* handler for that delivery or acks it.
C15_DecodeFailureNacks ==
  [][\A d \in Ids :
       /\ (Undecodable(d) /\ dl'[d] # dl[d]) =>
            /\ dl'[d].pc = "done"
            /\ dl'[d].inv = "none"
            /\ dl'[d].nacks = 1
            /\ dl'[d].acks = 0
            /\ ~dl'[d].requeue
            /\ tasksInProgress' = tasksInProgress - 1
       /\ (dl[d].pc = "done" /\ dl[d].nacks = 1) =>
            dl'[d] = dl[d]]_vars

\* the undecodable delivery was nack'd and Close, which waited for its
\* unit, has returned
C15_Witness ==
  \E d \in Ids :
    /\ dl[d].pc = "done"
    /\ dl[d].nacks = 1
    /\ dl[d].acks = 0
    /\ tasksInProgress = 0
    /\ stoppedClosed[1]
    /\ closer[1] = "idle"

\* C16 as stated: the loop leaves its select only by receiving a stop
\* request, it returns only after its stop-acknowledgment was received, and
\* handling a delivery of any kind leaves it in its select.
C16_LoopLeavesOnlyOnStop ==
  [][\A g \in Gens :
       /\ (loops[g].pc = "select" /\ loops'[g].pc # "select") =>
            /\ loops'[g].pc = "stopping"
            /\ closer[1] = "sendStop"
       /\ (loops[g].pc = "stopping" /\ loops'[g].pc # "stopping") =>
            loops'[g].pc = "stopped"
       /\ (\E d \in Ids : LoopTakes(g, d)) => loops'[g].pc = "select"]_vars

\* C16 amended: the loop leaves its select by receiving a stop request, and
\* then returns only after its stop-acknowledgment was received; or a Nack
\* that it issued (for an empty, an unparsable or an unregistered delivery,
\* or for the zero delivery of a closed channel) returned an error, and then
\* it returns without a stop-acknowledgment.  Handling a delivery for a
\* registered task, or one whose Nack succeeds, leaves it in its select.
C16_LoopLeavesOnStopOrNackError ==
  [][\A g \in Gens :
       /\ (loops[g].pc = "select" /\ loops'[g].pc # "select") =>
            \/ /\ loops'[g].pc = "stopping"
               /\ closer[1] = "sendStop"
            \/ /\ loops'[g].pc = "failed"
               /\ chans[g].state # "open"
               /\ \/ Buffered(g) = {}
                  \/ \E d \in Ids : LoopTakes(g, d) /\ dl'[d].pc = "rejected"
       /\ (loops[g].pc = "stopping" /\ loops'[g].pc # "stopping") =>
            loops'[g].pc = "stopped"
       /\ \A d \in Ids :
            (LoopTakes(g, d)
               /\ (dl'[d].pc = "spawned" \/ chans[g].state = "open")) =>
              loops'[g].pc = "select"]_vars

\* the loop has returned on the failed Nack of a delivery it rejected, and
\* an accepted delivery of the same lost channel did not end it before
C16_Witness ==
  /\ loops[1].pc = "failed"
  /\ chans[1].state = "down"
  /\ \E d \in Ids : dl[d].pc = "rejected"
  /\ \E d \in Ids : Accepted(d)

\* C17: whatever Start and Close calls were made on the worker, at most one
\* of its consumption loops is running, and a loop sends a
\* stop-acknowledgment only in answer to the stop signal of the Close call
\* that is waiting for it.
C17_OneLoopOneAck ==
  /\ Cardinality({g \in Gens : LiveLoop(g)}) <= 1
  /\ \A g \in Gens :
       loops[g].pc = "stopping" => closer[1] \in {"closeStop", "recvStopped"}

\* C18: every call of Close returns, whatever state the worker is in, as
\* long as the process is alive (the units' timeout guards return and the
\* scheduler is fair to the stop request).
C18_CloseReturns ==
  (closer[1] # "idle") ~> (closer[1] = "idle" \/ crashed)

\* the same for a worker whose Start succeeded and whose loop has not
\* returned on a failed Nack
C18_CloseReturnsWhileLoopLives ==
  (closer[1] # "idle")
    ~> \/ closer[1] = "idle"
       \/ crashed
       \/ lastStart \in StartFailures
       \/ loops[gen].pc = "failed"

\* C19: of two Close calls that run at the same time on a working worker,
\* only one gets past the check of the working flag and performs the
\* shutdown sequence; the other returns without doing anything.
C19_OneCloseShutsDown ==
  Cardinality({c \in Closers : closer[c] # "idle"}) <= 1

\* C20: once the timer has won and the execution unit has ended, the
\* abandoned invocation goroutine, when its handler has returned, does not
\* stay blocked handing over a result that nobody will receive.
C20_AbandonedInvocationEnds ==
  \A d \in Ids : dl[d].pc = "done" => dl[d].inv # "sending"
====
